---- MODULE Spec2Model ----
(***************************************************************************)
(* A model of the vscode-terraform extension's two stateful cores:         *)
(*                                                                         *)
(*  - src/src/extension.ts: the language-client supervisor, i.e. the       *)
(*    module-scoped state (initializationError, crashCount), the           *)
(*    initializationFailedHandler, the errorHandler (error / closed), the  *)
(*    onDidChangeState listener, activate() and deactivate();              *)
(*  - src/src/providers/terraformCloudProvider.ts: TerraformCloudFeature,   *)
(*    WorkspaceTreeDataProvider and RunTreeDataProvider.                   *)
(*                                                                         *)
(* The language client (vscode-languageclient), the editor host and the    *)
(* remote API are the environment: they decide which callback runs next    *)
(* and what a remote call answers.  Every callback is modelled whole.      *)
(*                                                                         *)
(* SpecSupervisor runs the supervisor; SpecCloud the fetches of the tree   *)
(* providers; SpecCloudEvents the commands and view events, each recorded  *)
(* as it is delivered; SpecCloudSession the fetches across sign-out.       *)
(***************************************************************************)
EXTENDS Naturals, Sequences, FiniteSets, TLC

VARIABLES
  \* ---- extension.ts ----
  phase,                \* "inactive" | "active" | "deactivated"
  clientState,          \* "undefined" (no client) | "Stopped" | "Starting" | "Running"
  handshake,            \* of the current start attempt: "none" | "pending" | "failed" | "done"
  initializationError,  \* extension.ts:53
  crashCount,           \* extension.ts:54
  outputChannel,        \* lines appended by the extension's own code
  telemetry,            \* events handed to the reporter
  errorMessages,        \* vscode.window.showErrorMessage calls
  closedAnswers,        \* what errorHandler.closed returned, call by call
  errorAnswers,         \* what errorHandler.error returned, call by call
  initFailedReturns,    \* what initializationFailedHandler returned, call by call
  activateAwaiting,     \* activate() is suspended at `await client.start()`
  deactivateResult,     \* "none" | "resolved" | "rejected"
  stopThrown,           \* what client.stop() threw inside deactivate()
  deactivateLines,      \* the lines deactivate() appended to the output channel
  stateChanges,         \* the client's state changes so far, as << old, new >> pairs
  \* ---- providers/terraformCloudProvider.ts ----
  globalOrganization,   \* ctx.globalState 'terraform.cloud.organization'
  statusBarText,        \* organizationStatusBar.text
  statusBarShown,       \* organizationStatusBar is shown
  projectID,            \* WorkspaceTreeDataProvider.projectID (line 103)
  workspace,            \* RunTreeDataProvider.workspace (line 231)
  fired,                \* the didChangeTreeData.fire() calls of the latest command
                        \* or view event, in call order: the provider, and the
                        \* filter or workspace a listener finds
  calls,                \* the getChildren() calls made by the host, in call order
  viewVisible,          \* the workspace tree view is visible (event.visible, line 83)
  signedIn,             \* the authentication provider holds a session token
  lastEvent             \* the latest command or view event, as the host delivered it

supervisorVars ==
  << phase, clientState, handshake, initializationError, crashCount, outputChannel,
     telemetry, errorMessages, closedAnswers, errorAnswers, initFailedReturns,
     activateAwaiting, deactivateResult, stopThrown, deactivateLines, stateChanges >>

cloudVars ==
  << globalOrganization, statusBarText, statusBarShown, projectID, workspace,
     fired, calls, viewVisible, signedIn, lastEvent >>

vars == << supervisorVars, cloudVars >>

-----------------------------------------------------------------------------
(* Values *)

\* The value `undefined` of an optional error.
Undefined == [kind |-> "undefined", message |-> ""]

\* What the client can hand to initializationFailedHandler
\* (ResponseError<InitializeError> | Error | any).
InitErrors ==
  { [kind |-> "ResponseError", message |-> "init failed"],
    [kind |-> "Error", message |-> "spawn ENOENT"],
    [kind |-> "other", message |-> ""] }

\* What client.stop() can throw: an Error, a string, or any other value.
StopFailures ==
  { [kind |-> "Error", message |-> "stop timed out"],
    [kind |-> "string", message |-> "stop failed"],
    [kind |-> "other", message |-> ""] }

\* The transport errors handed to errorHandler.error; error and message may be
\* undefined (the handler reads them with ?.).
TransportErrors == { Undefined, [kind |-> "Error", message |-> "EPIPE"] }
JsonRpcs == { "undefined", "2.0" }
\* count may be undefined (count ?? 0) or a number.
Counts == { "undefined" } \cup { "0", "1", "2", "3" }

\* terraform.languageServer.args[0]
ServerArgs0 == { "serve", "undefined", "-version" }

\* The crash counter values the closed handler is examined on, beyond the
\* ones a session reaches.
MaxCrash == 3
CrashCounts == 0 .. MaxCrash

GenericFailure ==
  "Failure to start terraform-ls. Please check your configuration settings and reload this window"
\* (the source text puts the setting's name between backquotes, which a TLA+
\* string cannot hold)
ServeArgFailure ==
  "You need at least a \"serve\" argument in the terraform.languageServer.args setting. Please check your configuration settings and reload this window"

Event(name) == [type |-> "event", name |-> name, error |-> Undefined]
Exception(error) == [type |-> "exception", name |-> "", error |-> error]

-----------------------------------------------------------------------------
(* extension.ts: the callbacks, as functions of what they read *)

\* A variant of initializationFailedHandler that asks the client to retry.
initializationFailedHandler_retrying(error, args0) ==
  LET msg == IF args0 # "serve" THEN ServeArgFailure ELSE GenericFailure
  IN  [ initializationError |-> error,
        telemetry     |-> << Exception(error) >>,
        lines         |-> << msg >>,
        errorMessages |-> << [ message |-> msg,
                               items |-> << "Open Settings", "Open Logs", "More Info" >> ] >>,
        return        |-> TRUE ]

\* initializationFailedHandler (extension.ts:92-140).  The .then() callback of
\* the notification only opens the log, the settings or a web page; it touches
\* none of the state below.
initializationFailedHandler(error, args0) ==
  LET msg == IF args0 # "serve" THEN ServeArgFailure ELSE GenericFailure
  IN  [ initializationError |-> error,
        telemetry     |-> << Exception(error) >>,
        lines         |-> << msg >>,
        errorMessages |-> << [ message |-> msg,
                               items |-> << "Open Settings", "Open Logs", "More Info" >> ] >>,
        return        |-> FALSE ]

\* A variant of errorHandler.error that retries the first errors, as the
\* client's default handler does.
errorHandler_error_retrying(error, jsonrpc, count) ==
  [ message |-> "Terraform LS connection error",
    action  |-> IF count \in { "undefined", "0", "1", "2" } THEN "Continue" ELSE "Shutdown" ]

\* errorHandler.error (extension.ts:143-148)
errorHandler_error(error, jsonrpc, count) ==
  [ message |-> "Terraform LS connection error: ("
                  \o (IF count = "undefined" THEN "0" ELSE count) \o ")\n"
                  \o (IF error = Undefined THEN "undefined" ELSE error.message) \o "\n"
                  \o jsonrpc,
    action  |-> "Shutdown" ]

\* Variants of errorHandler.closed: one compares the counter before it
\* increments it, one never looks at initializationError, one forgets the
\* increment.
errorHandler_closed_compareFirst(ie, cc) ==
  IF ie # Undefined
  THEN [ action |-> "DoNotRestart", hasMessage |-> TRUE, message |-> "",
         crashCount |-> cc,
         lines |-> << "Initialization error handled by handler" >> ]
  ELSE IF cc <= 1
  THEN [ action |-> "Restart", hasMessage |-> FALSE, message |-> "",
         crashCount |-> cc + 1,
         lines |-> << "Server has failed. Restarting" >> ]
  ELSE [ action |-> "DoNotRestart", hasMessage |-> TRUE, message |-> GenericFailure,
         crashCount |-> cc + 1,
         lines |-> << GenericFailure >> ]

errorHandler_closed_ignoringInitError(ie, cc) ==
  IF cc + 1 <= 1
  THEN [ action |-> "Restart", hasMessage |-> FALSE, message |-> "",
         crashCount |-> cc + 1,
         lines |-> << "Server has failed. Restarting" >> ]
  ELSE [ action |-> "DoNotRestart", hasMessage |-> TRUE, message |-> GenericFailure,
         crashCount |-> cc + 1,
         lines |-> << GenericFailure >> ]

errorHandler_closed_noIncrement(ie, cc) ==
  IF ie # Undefined
  THEN [ action |-> "DoNotRestart", hasMessage |-> TRUE, message |-> "",
         crashCount |-> cc,
         lines |-> << "Initialization error handled by handler" >> ]
  ELSE IF cc <= 0
  THEN [ action |-> "Restart", hasMessage |-> FALSE, message |-> "",
         crashCount |-> cc,
         lines |-> << "Server has failed. Restarting" >> ]
  ELSE [ action |-> "DoNotRestart", hasMessage |-> TRUE, message |-> GenericFailure,
         crashCount |-> cc,
         lines |-> << GenericFailure >> ]

\* A variant of errorHandler.closed that starts the counter afresh when it
\* gives up.
errorHandler_closed_resetting(ie, cc) ==
  IF ie # Undefined
  THEN [ action |-> "DoNotRestart", hasMessage |-> TRUE, message |-> "",
         crashCount |-> cc,
         lines |-> << "Initialization error handled by handler" >> ]
  ELSE IF cc + 1 <= 1
  THEN [ action |-> "Restart", hasMessage |-> FALSE, message |-> "",
         crashCount |-> cc + 1,
         lines |-> << "Server has failed. Restarting" >> ]
  ELSE [ action |-> "DoNotRestart", hasMessage |-> TRUE, message |-> GenericFailure,
         crashCount |-> 0,
         lines |-> << GenericFailure >> ]

\* A variant of errorHandler.closed that counts the close before it looks at
\* initializationError.
errorHandler_closed_countingFirst(ie, cc) ==
  IF ie # Undefined
  THEN [ action |-> "DoNotRestart", hasMessage |-> TRUE, message |-> "",
         crashCount |-> cc + 1,
         lines |-> << "Initialization error handled by handler" >> ]
  ELSE IF cc + 1 <= 1
  THEN [ action |-> "Restart", hasMessage |-> FALSE, message |-> "",
         crashCount |-> cc + 1,
         lines |-> << "Server has failed. Restarting" >> ]
  ELSE [ action |-> "DoNotRestart", hasMessage |-> TRUE, message |-> GenericFailure,
         crashCount |-> cc + 1,
         lines |-> << GenericFailure >> ]

\* errorHandler.closed (extension.ts:149-182): ie and cc are initializationError
\* and crashCount when the close event arrives.
errorHandler_closed(ie, cc) ==
  IF ie # Undefined
  THEN [ action |-> "DoNotRestart", hasMessage |-> TRUE, message |-> "",
         crashCount |-> cc,
         lines |-> << "Initialization error handled by handler" >> ]
  ELSE IF cc + 1 <= 1
  THEN [ action |-> "Restart", hasMessage |-> FALSE, message |-> "",
         crashCount |-> cc + 1,
         lines |-> << "Server has failed. Restarting" >> ]
  ELSE [ action |-> "DoNotRestart", hasMessage |-> TRUE, message |-> GenericFailure,
         crashCount |-> cc + 1,
         lines |-> << GenericFailure >> ]

\* A variant of the onDidChangeState listener that logs only the changes to
\* Stopped.
onDidChangeState_stoppedOnly(oldState, newState) ==
  IF newState = "Stopped"
  THEN [ lines     |-> << "Client: " \o oldState \o " --> " \o newState >>,
         telemetry |-> << Event("stopClient") >> ]
  ELSE [ lines |-> << >>, telemetry |-> << >> ]

\* client.onDidChangeState listener (extension.ts:187-192)
onDidChangeState(oldState, newState) ==
  [ lines     |-> << "Client: " \o oldState \o " --> " \o newState >>,
    telemetry |-> IF newState = "Stopped" THEN << Event("stopClient") >> ELSE << >> ]

\* The catch block of deactivate() (extension.ts:226-235), for a thrown value.
deactivateCatch(error) ==
  IF error.kind = "Error"
  THEN [ lines |-> << error.message >>, telemetry |-> << Exception(error) >>,
         errorMessages |-> << [ message |-> error.message, items |-> << >> ] >> ]
  ELSE IF error.kind = "string"
  THEN [ lines |-> << error.message >>,
         telemetry |-> << Exception([kind |-> "Error", message |-> error.message]) >>,
         errorMessages |-> << [ message |-> error.message, items |-> << >> ] >> ]
  ELSE [ lines |-> << >>, telemetry |-> << >>, errorMessages |-> << >> ]

-----------------------------------------------------------------------------
(* extension.ts: the state after the module is loaded, and the events *)

InitSupervisor ==
  /\ phase = "inactive"
  /\ clientState = "undefined"
  /\ handshake = "none"
  /\ initializationError = Undefined
  /\ crashCount = 0
  /\ outputChannel = << >>
  /\ telemetry = << >>
  /\ errorMessages = << >>
  /\ closedAnswers = << >>
  /\ errorAnswers = << >>
  /\ initFailedReturns = << >>
  /\ activateAwaiting = FALSE
  /\ deactivateResult = "none"
  /\ stopThrown = Undefined
  /\ deactivateLines = << >>
  /\ stateChanges = << >>

\* No change of the client's public state: the listener does not run.
NoStateChange == [ lines |-> << >>, telemetry |-> << >>, changes |-> << >> ]

\* The client moves from oldState to newState: the listener runs when the
\* public state changes.
StateChange(oldState, newState) ==
  IF oldState = newState
  THEN NoStateChange
  ELSE LET r == onDidChangeState(oldState, newState)
       IN  [ lines |-> r.lines, telemetry |-> r.telemetry,
             changes |-> << << oldState, newState >> >> ]

\* activate() up to `await client.start()` (extension.ts:56-209).
Activate(enable, customBinPath) ==
  /\ phase = "inactive"
  /\ phase' = "active"
  /\ IF ~enable
     THEN /\ telemetry' = telemetry \o << Event("disabledTerraformLS") >>
          /\ UNCHANGED << clientState, handshake, outputChannel, activateAwaiting,
                          stateChanges >>
     ELSE LET ch == StateChange("Stopped", "Starting")
          IN  /\ telemetry' = telemetry
                    \o (IF customBinPath THEN << Event("usePathToBinary") >> ELSE << >>)
                    \o ch.telemetry
              /\ outputChannel' = outputChannel \o << "Starting client" >> \o ch.lines
              /\ stateChanges' = stateChanges \o ch.changes
              /\ clientState' = "Starting"
              /\ handshake' = "pending"
              /\ activateAwaiting' = TRUE
  /\ UNCHANGED << initializationError, crashCount, errorMessages, closedAnswers,
                  errorAnswers, initFailedReturns, deactivateResult, stopThrown,
                  deactivateLines >>
  /\ UNCHANGED cloudVars

\* The handshake of the current start attempt succeeds; if it is the attempt
\* activate() awaits, activate() resumes (extension.ts:211-217).
InitializeOk(multiFolders) ==
  /\ phase = "active"
  /\ clientState = "Starting"
  /\ handshake = "pending"
  /\ LET ch == StateChange("Starting", "Running")
     IN  /\ clientState' = "Running"
         /\ handshake' = "done"
         /\ outputChannel' = outputChannel \o ch.lines
               \o (IF activateAwaiting
                   THEN << "Multi-folder support: " \o multiFolders >> ELSE << >>)
         /\ telemetry' = telemetry \o ch.telemetry
               \o (IF activateAwaiting THEN << Event("startClient") >> ELSE << >>)
         /\ stateChanges' = stateChanges \o ch.changes
  /\ activateAwaiting' = FALSE
  /\ UNCHANGED << phase, initializationError, crashCount, errorMessages, closedAnswers,
                  errorAnswers, initFailedReturns, deactivateResult, stopThrown,
                  deactivateLines >>
  /\ UNCHANGED cloudVars

\* The handshake of the current start attempt fails: the client calls
\* initializationFailedHandler; on `false` it starts to stop itself.
InitializationFailed(error, args0) ==
  /\ phase = "active"
  /\ clientState = "Starting"
  /\ handshake = "pending"
  /\ LET r == initializationFailedHandler(error, args0)
     IN  /\ initializationError' = r.initializationError
         /\ telemetry' = telemetry \o r.telemetry
         /\ outputChannel' = outputChannel \o r.lines
         /\ errorMessages' = errorMessages \o r.errorMessages
         /\ initFailedReturns' = Append(initFailedReturns, r.return)
         /\ handshake' = IF r.return THEN "pending" ELSE "failed"
  /\ activateAwaiting' = FALSE
  /\ UNCHANGED << phase, clientState, crashCount, closedAnswers, errorAnswers,
                  deactivateResult, stopThrown, deactivateLines, stateChanges >>
  /\ UNCHANGED cloudVars

\* The stop the client began after a failed handshake completes before any
\* close event is delivered.
StopAfterInitializationFailed ==
  /\ phase = "active"
  /\ clientState = "Starting"
  /\ handshake = "failed"
  /\ LET ch == StateChange("Starting", "Stopped")
     IN  /\ outputChannel' = outputChannel \o ch.lines
         /\ telemetry' = telemetry \o ch.telemetry
         /\ stateChanges' = stateChanges \o ch.changes
  /\ clientState' = "Stopped"
  /\ handshake' = "none"
  /\ UNCHANGED << phase, initializationError, crashCount, errorMessages, closedAnswers,
                  errorAnswers, initFailedReturns, activateAwaiting, deactivateResult,
                  stopThrown, deactivateLines >>
  /\ UNCHANGED cloudVars

\* The connection to the server closes unexpectedly: the client asks
\* errorHandler.closed and restarts or stops as answered.
ConnectionClosed ==
  /\ phase = "active"
  /\ clientState \in { "Starting", "Running" }
  /\ LET r   == errorHandler_closed(initializationError, crashCount)
         ch1 == StateChange(clientState, "Stopped")
         ch2 == IF r.action = "Restart" THEN StateChange("Stopped", "Starting")
                ELSE NoStateChange
     IN  /\ crashCount' = r.crashCount
         /\ closedAnswers' = Append(closedAnswers,
               [ action |-> r.action, hasMessage |-> r.hasMessage, message |-> r.message,
                 lines |-> r.lines,
                 initializationError |-> initializationError,
                 crashCountBefore |-> crashCount, crashCountAfter |-> r.crashCount ])
         /\ outputChannel' = outputChannel \o r.lines \o ch1.lines \o ch2.lines
         /\ telemetry' = telemetry \o ch1.telemetry \o ch2.telemetry
         /\ stateChanges' = stateChanges \o ch1.changes \o ch2.changes
         /\ clientState' = IF r.action = "Restart" THEN "Starting" ELSE "Stopped"
         /\ handshake' = IF r.action = "Restart" THEN "pending" ELSE "none"
  /\ activateAwaiting' = FALSE
  /\ UNCHANGED << phase, initializationError, errorMessages, errorAnswers,
                  initFailedReturns, deactivateResult, stopThrown, deactivateLines >>
  /\ UNCHANGED cloudVars

\* A transport-level error: the client asks errorHandler.error and, on
\* Shutdown, stops (no close event is delivered while it stops).
TransportError(error, jsonrpc, count) ==
  /\ phase = "active"
  /\ clientState \in { "Starting", "Running" }
  /\ handshake \in { "pending", "done" }
  /\ LET r  == errorHandler_error(error, jsonrpc, count)
         ch == IF r.action = "Shutdown" THEN StateChange(clientState, "Stopped")
               ELSE NoStateChange
     IN  /\ errorAnswers' = Append(errorAnswers,
               [ action |-> r.action, message |-> r.message, count |-> count ])
         /\ outputChannel' = outputChannel \o ch.lines
         /\ telemetry' = telemetry \o ch.telemetry
         /\ stateChanges' = stateChanges \o ch.changes
         /\ clientState' = IF r.action = "Shutdown" THEN "Stopped" ELSE clientState
         /\ handshake' = IF r.action = "Shutdown" THEN "none" ELSE handshake
  /\ activateAwaiting' = IF clientState' = "Stopped" THEN FALSE ELSE activateAwaiting
  /\ UNCHANGED << phase, initializationError, crashCount, errorMessages, closedAnswers,
                  initFailedReturns, deactivateResult, stopThrown, deactivateLines >>
  /\ UNCHANGED cloudVars

\* deactivate() (extension.ts:223-237).  thrown is what `await client?.stop()`
\* throws, Undefined when it throws nothing; with no client there is no call.
Deactivate(thrown) ==
  /\ phase = "active"
  /\ clientState = "undefined" => thrown = Undefined
  /\ phase' = "deactivated"
  /\ stopThrown' = thrown
  /\ IF thrown = Undefined
     THEN LET ch == IF clientState = "undefined"
                    THEN NoStateChange
                    ELSE StateChange(clientState, "Stopped")
          IN  /\ clientState' = IF clientState = "undefined" THEN clientState ELSE "Stopped"
              /\ handshake' = "none"
              /\ outputChannel' = outputChannel \o ch.lines
              /\ telemetry' = telemetry \o ch.telemetry
              /\ stateChanges' = stateChanges \o ch.changes
              /\ deactivateLines' = << >>
              /\ UNCHANGED errorMessages
     ELSE LET r == deactivateCatch(thrown)
          IN  /\ outputChannel' = outputChannel \o r.lines
              /\ telemetry' = telemetry \o r.telemetry
              /\ errorMessages' = errorMessages \o r.errorMessages
              /\ deactivateLines' = r.lines
              /\ UNCHANGED << clientState, handshake, stateChanges >>
  /\ deactivateResult' = "resolved"
  /\ activateAwaiting' = FALSE
  /\ UNCHANGED << initializationError, crashCount, closedAnswers, errorAnswers,
                  initFailedReturns >>
  /\ UNCHANGED cloudVars

NextSupervisor ==
  \/ \E enable \in BOOLEAN, customBinPath \in BOOLEAN : Activate(enable, customBinPath)
  \/ \E multiFolders \in { "true", "undefined" } : InitializeOk(multiFolders)
  \/ \E error \in InitErrors, args0 \in ServerArgs0 : InitializationFailed(error, args0)
  \/ StopAfterInitializationFailed
  \/ ConnectionClosed
  \/ \E error \in TransportErrors, jsonrpc \in JsonRpcs, count \in Counts :
        TransportError(error, jsonrpc, count)
  \/ \E thrown \in StopFailures \cup { Undefined } : Deactivate(thrown)

-----------------------------------------------------------------------------
(* providers/terraformCloudProvider.ts: values *)

\* How many getChildren() calls the host makes in the sessions examined.
MaxCalls == 2

Organizations == { "acme", "beta" }
ProjectIDs == { "prj-123" }

\* A string argument that was not given.
NotGiven == "<undefined>"

\* The value `undefined` of the Run provider's workspace.
NoWorkspace == [name |-> "<undefined>", id |-> "<undefined>"]
WorkspaceItems == { [name |-> "web", id |-> "ws-1"], [name |-> "db", id |-> "ws-2"] }

\* Remote records: an id and an attributes bag.
WorkspaceRecord(item) == [id |-> item.id, attributes |-> [name |-> item.name]]
WorkspaceResponses ==
  { << >>,
    << WorkspaceRecord([name |-> "web", id |-> "ws-1"]),
       WorkspaceRecord([name |-> "db", id |-> "ws-2"]) >> }
RunResponses ==
  { << [id |-> "run-2", attributes |-> [message |-> "apply"]],
       [id |-> "run-1", attributes |-> [message |-> "plan"]] >> }

\* The host of a run's URL (line 284).
RunHost == "app.staging.terraform.io"

NoRequest ==
  [ api |-> "none", organization_name |-> "", hasProjectFilter |-> FALSE,
    projectFilter |-> "", workspace_id |-> "" ]

\* What the feature holds when an event is delivered.
NoSnapshot ==
  [ globalOrganization |-> "", statusBarText |-> "", statusBarShown |-> FALSE,
    projectID |-> "", workspace |-> NoWorkspace, viewVisible |-> FALSE ]

\* An event the host delivers: a command (with what its remote list call and
\* its dialog answered, or the item it was invoked on) or a view event; result
\* is how its handler ended and before what the feature held when it began.
NoEvent ==
  [ name |-> "none", listed |-> FALSE, answer |-> NotGiven, item |-> NoWorkspace,
    visible |-> FALSE, result |-> "none", before |-> NoSnapshot ]

-----------------------------------------------------------------------------
(* providers/terraformCloudProvider.ts: the methods *)

\* A variant of WorkspaceTreeDataProvider.refresh that drops its argument.
WorkspaceTreeDataProvider_refresh_ignoringArgument(given) == ""

\* WorkspaceTreeDataProvider.refresh (lines 169-172): the new projectID.
WorkspaceTreeDataProvider_refresh(given) ==
  IF given = NotGiven THEN "" ELSE given

\* A variant of RunTreeDataProvider.refresh that keeps the first workspace it
\* was given.
RunTreeDataProvider_refresh_keepFirst(current, given) ==
  IF current = NoWorkspace THEN given ELSE current

\* A variant of RunTreeDataProvider.refresh that assigns whatever it is given.
RunTreeDataProvider_refresh_assigning(current, given) == given

\* RunTreeDataProvider.refresh (lines 247-252): the new workspace.
RunTreeDataProvider_refresh(current, given) ==
  IF given # NoWorkspace THEN given ELSE current

\* A variant of WorkspaceTreeDataProvider.refresh that fires only when the
\* filter has changed.
WorkspaceTreeDataProvider_fire_whenChanged(before, after) ==
  IF before = after
  THEN << >>
  ELSE << [ provider |-> "workspaces", projectID |-> after, workspace |-> NoWorkspace ] >>

\* this.didChangeTreeData.fire() of WorkspaceTreeDataProvider.refresh (line
\* 171): before and after are projectID before and after line 170.  One
\* notification; a listener that runs inside fire() finds projectID = after.
WorkspaceTreeDataProvider_fire(before, after) ==
  << [ provider |-> "workspaces", projectID |-> after, workspace |-> NoWorkspace ] >>

\* this.didChangeTreeData.fire() of RunTreeDataProvider.refresh (line 251):
\* before and after are the workspace before and after lines 248-250.
RunTreeDataProvider_fire(before, after) ==
  << [ provider |-> "runs", projectID |-> "", workspace |-> after ] >>

\* A variant of getWorkspaces that never sends the project filter.
getWorkspaces_request_unfiltered(organization, filter) ==
  [ api |-> "listWorkspaces", organization_name |-> organization,
    hasProjectFilter |-> FALSE, projectFilter |-> "", workspace_id |-> "" ]

\* The listWorkspaces call of getWorkspaces (lines 193-209): made before the
\* method first suspends, so with the projectID of the getChildren() call.
getWorkspaces_request(organization, filter) ==
  IF filter # ""
  THEN [ api |-> "listWorkspaces", organization_name |-> organization,
         hasProjectFilter |-> TRUE, projectFilter |-> filter, workspace_id |-> "" ]
  ELSE [ api |-> "listWorkspaces", organization_name |-> organization,
         hasProjectFilter |-> FALSE, projectFilter |-> "", workspace_id |-> "" ]

\* getWorkspaces after the response (lines 211-219).
getWorkspaces_items(data) ==
  [ i \in 1 .. Len(data) |->
      [ label |-> data[i].attributes.name, id |-> data[i].id, url |-> "" ] ]

\* The listRuns call of getRuns (lines 271-277).
getRuns_request(ws) ==
  [ api |-> "listRuns", organization_name |-> "", hasProjectFilter |-> FALSE,
    projectFilter |-> "", workspace_id |-> ws.id ]

\* A variant of getRuns that builds the URL from the workspace's id.
getRuns_items_idInUrl(organization, ws, data) ==
  [ i \in 1 .. Len(data) |->
      [ label |-> data[i].attributes.message,
        id    |-> data[i].id,
        url   |-> "https://" \o RunHost \o "/app/" \o organization
                    \o "/workspaces/" \o ws.id \o "/runs/" \o data[i].id ] ]

\* getRuns after the response (lines 279-289): organization and ws are the
\* values getRuns read before it suspended.
getRuns_items(organization, ws, data) ==
  [ i \in 1 .. Len(data) |->
      [ label |-> data[i].attributes.message,
        id    |-> data[i].id,
        url   |-> "https://" \o RunHost \o "/app/" \o organization
                    \o "/workspaces/" \o ws.name \o "/runs/" \o data[i].id ] ]

\* A variant of WorkspaceTreeDataProvider.getChildren without the early return.
WorkspaceTreeDataProvider_getChildren_noGuard(organization, filter) ==
  [ provider |-> "workspaces", status |-> "pending",
    request |-> getWorkspaces_request(organization, filter),
    organization |-> organization, filter |-> filter, workspace |-> NoWorkspace,
    data |-> << >>, items |-> << >>, session |-> TRUE ]

\* WorkspaceTreeDataProvider.getChildren (lines 178-189), up to its return.
\* A call is recorded with what it read: the organization, the projectID
\* (filter) or the workspace; data is the remote response once it has arrived.
WorkspaceTreeDataProvider_getChildren(organization, filter) ==
  IF organization = ""
  THEN [ provider |-> "workspaces", status |-> "empty", request |-> NoRequest,
         organization |-> organization, filter |-> filter, workspace |-> NoWorkspace,
         data |-> << >>, items |-> << >>, session |-> TRUE ]
  ELSE [ provider |-> "workspaces", status |-> "pending",
         request |-> getWorkspaces_request(organization, filter),
         organization |-> organization, filter |-> filter, workspace |-> NoWorkspace,
         data |-> << >>, items |-> << >>, session |-> TRUE ]

\* A variant of RunTreeDataProvider.getChildren without the early return.
RunTreeDataProvider_getChildren_noGuard(organization, ws) ==
  [ provider |-> "runs", status |-> "pending", request |-> getRuns_request(ws),
    organization |-> organization, filter |-> "", workspace |-> ws,
    data |-> << >>, items |-> << >>, session |-> TRUE ]

\* RunTreeDataProvider.getChildren (lines 258-268), up to its return; the
\* organization is read by getRuns only (line 271).
RunTreeDataProvider_getChildren(organization, ws) ==
  IF ws = NoWorkspace
  THEN [ provider |-> "runs", status |-> "empty", request |-> NoRequest,
         organization |-> "", filter |-> "", workspace |-> ws,
         data |-> << >>, items |-> << >>, session |-> TRUE ]
  ELSE [ provider |-> "runs", status |-> "pending", request |-> getRuns_request(ws),
         organization |-> organization, filter |-> "", workspace |-> ws,
         data |-> << >>, items |-> << >>, session |-> TRUE ]

\* A variant in which getRuns reads the organization and the provider's
\* workspace after the response has arrived.
getChildren_settle_readingLate(call, ok, data) ==
  IF ok
  THEN [ call EXCEPT !.status = "fulfilled",
                     !.data = data,
                     !.items = IF call.provider = "workspaces"
                               THEN getWorkspaces_items(data)
                               ELSE getRuns_items(globalOrganization, workspace, data) ]
  ELSE [ call EXCEPT !.status = "rejected" ]

\* What the promise returned by getChildren() settles to.  getChildren()
\* returns the promise of getWorkspaces / getRuns without awaiting it, so its
\* try/catch (lines 184-188, 263-267) sees no rejection: the promise settles
\* as the inner one does.
getChildren_settle(call, ok, data) ==
  IF ok
  THEN [ call EXCEPT !.status = "fulfilled",
                     !.data = data,
                     !.items = IF call.provider = "workspaces"
                               THEN getWorkspaces_items(data)
                               ELSE getRuns_items(call.organization, call.workspace, data) ]
  ELSE [ call EXCEPT !.status = "rejected" ]

-----------------------------------------------------------------------------
(* providers/terraformCloudProvider.ts: the state after construction, and the events *)

\* TerraformCloudFeature's constructor (lines 30-34) reads the organization
\* from ctx.workspaceState; the providers read ctx.globalState.
InitCloud ==
  /\ globalOrganization \in { "" } \cup Organizations
  /\ \E org \in { "", "acme" } :
       /\ statusBarText = org
       /\ statusBarShown = (org # "")
  /\ projectID = ""
  /\ workspace = NoWorkspace
  /\ fired = << >>
  /\ calls = << >>
  /\ viewVisible \in BOOLEAN
  /\ signedIn \in BOOLEAN
  /\ lastEvent = NoEvent

\* terraform.cloud.organization.picker (lines 36-65).  listed: the
\* listOrganizations call succeeded; answer is the picked organization,
\* NotGiven when the dialog is dismissed.  When the call fails or the dialog is
\* dismissed the command ends before it changes anything.
OrganizationPicker(listed, answer) ==
  /\ ~listed => answer = NotGiven
  /\ IF listed /\ answer # NotGiven
     THEN /\ statusBarText' = answer
          /\ statusBarShown' = TRUE
          /\ globalOrganization' = answer
     ELSE UNCHANGED << statusBarText, statusBarShown, globalOrganization >>
  /\ fired' = << >>
  /\ UNCHANGED << projectID, workspace, calls >>
  /\ UNCHANGED << viewVisible, signedIn >>
  /\ UNCHANGED supervisorVars

\* terraform.cloud.workspaces.filterByProject (lines 106-144): listed: the
\* listProjects call succeeded; answer is the picked project's id, NotGiven
\* when the dialog is dismissed.  With no organization, a failed listProjects
\* or a dismissed dialog the command ends before it changes anything.
FilterByProject(listed, answer) ==
  /\ ~listed => answer = NotGiven
  /\ IF globalOrganization # "" /\ listed /\ answer # NotGiven
     THEN LET p == WorkspaceTreeDataProvider_refresh(answer)
              w == RunTreeDataProvider_refresh(workspace, NoWorkspace)
          IN  /\ projectID' = p
              /\ workspace' = w
              /\ fired' = WorkspaceTreeDataProvider_fire(projectID, p)
                             \o RunTreeDataProvider_fire(workspace, w)
     ELSE /\ fired' = << >>
          /\ UNCHANGED << projectID, workspace >>
  /\ UNCHANGED << globalOrganization, statusBarText, statusBarShown, calls >>
  /\ UNCHANGED << viewVisible, signedIn >>
  /\ UNCHANGED supervisorVars

\* terraform.cloud.workspaces.listAll (lines 145-157)
ListAll ==
  /\ LET p == WorkspaceTreeDataProvider_refresh(NotGiven)
         w == RunTreeDataProvider_refresh(workspace, NoWorkspace)
     IN  /\ projectID' = p
         /\ workspace' = w
         \* line 146 has emptied projectID before refresh() runs
         /\ fired' = WorkspaceTreeDataProvider_fire("", p)
                        \o RunTreeDataProvider_fire(workspace, w)
  /\ UNCHANGED << globalOrganization, statusBarText, statusBarShown, calls >>
  /\ UNCHANGED << viewVisible, signedIn >>
  /\ UNCHANGED supervisorVars

\* A variant of terraform.cloud.workspaces.refresh that calls this.refresh()
\* without the current filter.
WorkspacesRefresh_resettingFilter(item) ==
  /\ LET p == WorkspaceTreeDataProvider_refresh(NotGiven)
         w == RunTreeDataProvider_refresh(workspace, item)
     IN  /\ projectID' = p
         /\ workspace' = w
         /\ fired' = WorkspaceTreeDataProvider_fire(projectID, p)
                        \o RunTreeDataProvider_fire(workspace, w)
  /\ UNCHANGED << globalOrganization, statusBarText, statusBarShown, calls >>
  /\ UNCHANGED << viewVisible, signedIn >>
  /\ UNCHANGED supervisorVars

\* terraform.cloud.workspaces.refresh (lines 158-166)
WorkspacesRefresh(item) ==
  /\ LET p == WorkspaceTreeDataProvider_refresh(projectID)
         w == RunTreeDataProvider_refresh(workspace, item)
     IN  /\ projectID' = p
         /\ workspace' = w
         /\ fired' = WorkspaceTreeDataProvider_fire(projectID, p)
                        \o RunTreeDataProvider_fire(workspace, w)
  /\ UNCHANGED << globalOrganization, statusBarText, statusBarShown, calls >>
  /\ UNCHANGED << viewVisible, signedIn >>
  /\ UNCHANGED supervisorVars

\* terraform.cloud.runs.refresh (line 239)
RunsRefresh ==
  /\ LET w == RunTreeDataProvider_refresh(workspace, NoWorkspace)
     IN  /\ workspace' = w
         /\ fired' = RunTreeDataProvider_fire(workspace, w)
  /\ UNCHANGED << globalOrganization, statusBarText, statusBarShown, projectID, calls >>
  /\ UNCHANGED << viewVisible, signedIn >>
  /\ UNCHANGED supervisorVars

\* workspaceView.onDidChangeSelection (lines 76-81): item is selection[0],
\* NoWorkspace when the selection is empty.
SelectionChanged(item) ==
  /\ LET w == RunTreeDataProvider_refresh(workspace, item)
     IN  /\ workspace' = w
         /\ fired' = RunTreeDataProvider_fire(workspace, w)
  /\ UNCHANGED << globalOrganization, statusBarText, statusBarShown, projectID, calls >>
  /\ UNCHANGED << viewVisible, signedIn >>
  /\ UNCHANGED supervisorVars

\* The host asks the Workspace provider for its children.
WorkspaceGetChildren ==
  /\ Len(calls) < MaxCalls
  /\ calls' = Append(calls,
        [ WorkspaceTreeDataProvider_getChildren(globalOrganization, projectID)
            EXCEPT !.session = signedIn ])
  /\ UNCHANGED << globalOrganization, statusBarText, statusBarShown, projectID,
                  workspace, fired >>
  /\ UNCHANGED << viewVisible, signedIn >>
  /\ UNCHANGED supervisorVars

\* The host asks the Run provider for its children.
RunGetChildren ==
  /\ Len(calls) < MaxCalls
  /\ calls' = Append(calls,
        [ RunTreeDataProvider_getChildren(globalOrganization, workspace)
            EXCEPT !.session = signedIn ])
  /\ UNCHANGED << globalOrganization, statusBarText, statusBarShown, projectID,
                  workspace, fired >>
  /\ UNCHANGED << viewVisible, signedIn >>
  /\ UNCHANGED supervisorVars

\* The remote API answers a pending call, or the call fails.  A call made
\* with no session carries no token: it fails, or it is answered with nothing.
ResponseArrives(i, ok, data) ==
  /\ i \in 1 .. Len(calls)
  /\ calls[i].status = "pending"
  /\ ok => data \in (IF ~calls[i].session THEN { << >> }
                     ELSE IF calls[i].provider = "workspaces"
                     THEN WorkspaceResponses ELSE RunResponses)
  /\ ~ok => data = << >>
  /\ calls' = [ calls EXCEPT ![i] = getChildren_settle(calls[i], ok, data) ]
  /\ UNCHANGED << globalOrganization, statusBarText, statusBarShown, projectID,
                  workspace, fired >>
  /\ UNCHANGED << viewVisible, signedIn >>
  /\ UNCHANGED supervisorVars

\* workspaceView.onDidChangeVisibility (lines 82-90); the host delivers the
\* event when the view's visibility changes.
VisibilityChanged(visible) ==
  /\ visible # viewVisible
  /\ viewVisible' = visible
  /\ statusBarShown' = visible
  /\ fired' = << >>
  /\ UNCHANGED << globalOrganization, statusBarText, projectID, workspace, calls,
                  signedIn >>
  /\ UNCHANGED supervisorVars

\* Sign-out: the authentication provider deletes the stored token and fires
\* its change notification.  Nothing in terraformCloudProvider.ts listens to
\* it: no provider is refreshed.
SignOut ==
  /\ signedIn
  /\ signedIn' = FALSE
  /\ fired' = << >>
  /\ UNCHANGED << globalOrganization, statusBarText, statusBarShown, projectID,
                  workspace, calls, viewVisible >>
  /\ UNCHANGED supervisorVars

\* Sign-in: the authentication provider stores a token.
SignIn ==
  /\ ~signedIn
  /\ signedIn' = TRUE
  /\ fired' = << >>
  /\ UNCHANGED << globalOrganization, statusBarText, statusBarShown, projectID,
                  workspace, calls, viewVisible >>
  /\ UNCHANGED supervisorVars

\* How the picker command's promise ends (lines 36-37): the listOrganizations
\* call is awaited outside any try block, so its failure is the command's.
OrganizationPicker_result(listed) ==
  IF listed THEN "resolved" ELSE "rejected"

\* How the filterByProject command's promise ends (lines 107-116): with no
\* organization it returns before the listProjects call, which is awaited
\* outside any try block.
FilterByProject_result(organization, listed) ==
  IF organization = "" \/ listed THEN "resolved" ELSE "rejected"

Snapshot ==
  [ globalOrganization |-> globalOrganization, statusBarText |-> statusBarText,
    statusBarShown |-> statusBarShown, projectID |-> projectID,
    workspace |-> workspace, viewVisible |-> viewVisible ]

\* The step A, with the event that caused it left unrecorded.
Quiet(A) == A /\ UNCHANGED lastEvent

\* The step A, recorded as the delivery of event.
Deliver(event, A) == A /\ lastEvent' = [ event EXCEPT !.before = Snapshot ]

\* The fetches: the commands and view events, the getChildren() calls of the
\* host and the answers of the remote API.
NextCloud ==
  \/ \E listed \in BOOLEAN, answer \in Organizations \cup { NotGiven } :
        Quiet(OrganizationPicker(listed, answer))
  \/ \E listed \in BOOLEAN, answer \in ProjectIDs \cup { NotGiven } :
        Quiet(FilterByProject(listed, answer))
  \/ Quiet(ListAll)
  \/ \E item \in WorkspaceItems \cup { NoWorkspace } : Quiet(WorkspacesRefresh(item))
  \/ Quiet(RunsRefresh)
  \/ \E item \in WorkspaceItems \cup { NoWorkspace } : Quiet(SelectionChanged(item))
  \/ Quiet(WorkspaceGetChildren)
  \/ Quiet(RunGetChildren)
  \/ \E i \in 1 .. MaxCalls, ok \in BOOLEAN,
        data \in WorkspaceResponses \cup RunResponses :
          Quiet(ResponseArrives(i, ok, data))

\* The commands and view events alone, each recorded as it is delivered.
NextCloudEvents ==
  \/ \E listed \in BOOLEAN, answer \in Organizations \cup { NotGiven } :
        Deliver([ NoEvent EXCEPT !.name = "organization.picker", !.listed = listed,
                                 !.answer = answer,
                                 !.result = OrganizationPicker_result(listed) ],
                OrganizationPicker(listed, answer))
  \/ \E listed \in BOOLEAN, answer \in ProjectIDs \cup { NotGiven } :
        Deliver([ NoEvent EXCEPT !.name = "workspaces.filterByProject",
                                 !.listed = listed, !.answer = answer,
                                 !.result = FilterByProject_result(globalOrganization,
                                                                   listed) ],
                FilterByProject(listed, answer))
  \/ Deliver([ NoEvent EXCEPT !.name = "workspaces.listAll", !.result = "returned" ],
             ListAll)
  \/ \E item \in WorkspaceItems \cup { NoWorkspace } :
        Deliver([ NoEvent EXCEPT !.name = "workspaces.refresh", !.item = item,
                                 !.result = "returned" ],
                WorkspacesRefresh(item))
  \/ Deliver([ NoEvent EXCEPT !.name = "runs.refresh", !.result = "returned" ],
             RunsRefresh)
  \/ \E item \in WorkspaceItems \cup { NoWorkspace } :
        Deliver([ NoEvent EXCEPT !.name = "onDidChangeSelection", !.item = item,
                                 !.result = "returned" ],
                SelectionChanged(item))
  \/ \E visible \in BOOLEAN :
        Deliver([ NoEvent EXCEPT !.name = "onDidChangeVisibility", !.visible = visible,
                                 !.result = "returned" ],
                VisibilityChanged(visible))

\* Sign-out and sign-in among the fetches.
NextCloudSession ==
  \/ Quiet(SignOut)
  \/ Quiet(SignIn)
  \/ \E listed \in BOOLEAN, answer \in Organizations \cup { NotGiven } :
        Quiet(OrganizationPicker(listed, answer))
  \/ \E item \in WorkspaceItems \cup { NoWorkspace } : Quiet(SelectionChanged(item))
  \/ Quiet(WorkspaceGetChildren)
  \/ Quiet(RunGetChildren)
  \/ \E i \in 1 .. MaxCalls, ok \in BOOLEAN,
        data \in WorkspaceResponses \cup RunResponses :
          Quiet(ResponseArrives(i, ok, data))

-----------------------------------------------------------------------------
(* The specifications *)

Init == InitSupervisor /\ InitCloud

\* The supervisor of extension.ts; the cloud providers stay as constructed.
SpecSupervisor == Init /\ [][NextSupervisor]_vars

\* The fetches of the cloud providers (terraformCloudProvider.ts), signed in;
\* the supervisor stays as loaded.  No fetch reads the view's visibility or the
\* status bar: the view starts not visible and the status bar empty.
InitFetch == Init /\ signedIn /\ ~viewVisible /\ statusBarText = ""
SpecCloud == InitFetch /\ [][NextCloud]_vars

\* The commands and view events of the cloud feature, without the fetches.
InitEvents == Init /\ signedIn
SpecCloudEvents == InitEvents /\ [][NextCloudEvents]_vars

\* The fetches across sign-out and sign-in.
InitSession == Init /\ ~viewVisible
SpecCloudSession == InitSession /\ [][NextCloudSession]_vars


-----------------------------------------------------------------------------
(* Properties of the supervisor (extension.ts) *)

ClosedIndexes == 1 .. Len(closedAnswers)

\* The notifications and telemetry exceptions that come from
\* initializationFailedHandler.
InitFailureNotifications ==
  { i \in 1 .. Len(errorMessages) :
      errorMessages[i].items = << "Open Settings", "Open Logs", "More Info" >> }
InitFailureExceptions ==
  { i \in 1 .. Len(telemetry) :
      telemetry[i].type = "exception" /\ telemetry[i].error \in InitErrors }

\* C1: while no initialization error is recorded, the closed handler answers
\* Restart for the first close and only for it, and answers DoNotRestart with
\* the generic failure message for the second close, after which the client
\* is stopped: one restart, then none.
C1_RestartOnceThenStop ==
  initializationError = Undefined =>
    /\ \A i \in ClosedIndexes : (closedAnswers[i].action = "Restart") <=> (i = 1)
    /\ Len(closedAnswers) >= 2 =>
         /\ closedAnswers[2].action = "DoNotRestart"
         /\ closedAnswers[2].hasMessage
         /\ closedAnswers[2].message = GenericFailure
         /\ clientState = "Stopped"
    /\ Len(closedAnswers) <= 2

C1_Witness ==
  /\ initializationError = Undefined
  /\ Len(closedAnswers) = 2
  /\ closedAnswers[1].action = "Restart"

\* C2: once initializationFailedHandler has recorded an error, every close is
\* answered DoNotRestart, for every value of the crash counter, and no start
\* attempt follows the recording.
C2_NoRestartAfterInitializationError ==
  /\ \A i \in ClosedIndexes :
       closedAnswers[i].initializationError # Undefined =>
         closedAnswers[i].action = "DoNotRestart"
  /\ \A e \in InitErrors, cc \in CrashCounts :
       errorHandler_closed(e, cc).action = "DoNotRestart"
  /\ initializationError # Undefined =>
       /\ handshake # "pending"
       /\ clientState # "Running"

C2_Witness ==
  /\ Len(closedAnswers) = 2
  /\ closedAnswers[2].initializationError # Undefined
  /\ closedAnswers[2].crashCountBefore = 1

\* C3 as stated: with no initialization error recorded, a close that arrives
\* while the crash counter is 0 or 1 increments the counter and is answered
\* Restart.
C3_RestartWhileCounterAtMostOne ==
  \A i \in ClosedIndexes :
    (closedAnswers[i].initializationError = Undefined
       /\ closedAnswers[i].crashCountBefore <= 1) =>
      /\ closedAnswers[i].crashCountAfter = closedAnswers[i].crashCountBefore + 1
      /\ closedAnswers[i].action = "Restart"

\* C3 amended: with no initialization error recorded, every close increments
\* the counter, and it is answered Restart exactly when the counter was 0 when
\* the close arrived (1 after the increment); a close arriving at 1 or more is
\* answered DoNotRestart.
C3_RestartOnlyFromZero ==
  /\ \A i \in ClosedIndexes :
       closedAnswers[i].initializationError = Undefined =>
         /\ closedAnswers[i].crashCountAfter = closedAnswers[i].crashCountBefore + 1
         /\ (closedAnswers[i].action = "Restart")
              <=> (closedAnswers[i].crashCountBefore = 0)
  /\ \A cc \in CrashCounts :
       LET r == errorHandler_closed(Undefined, cc)
       IN  /\ r.crashCount = cc + 1
           /\ r.action = IF cc = 0 THEN "Restart" ELSE "DoNotRestart"

C3_Witness ==
  \E i \in ClosedIndexes :
    /\ closedAnswers[i].initializationError = Undefined
    /\ closedAnswers[i].crashCountBefore = 1
    /\ closedAnswers[i].action = "DoNotRestart"

C5_TransportErrorShutsDown ==
  [][ errorAnswers' # errorAnswers =>
        /\ Len(errorAnswers') = Len(errorAnswers) + 1
        /\ errorAnswers'[Len(errorAnswers')].action = "Shutdown"
        /\ crashCount' = crashCount
        /\ initializationError' = initializationError ]_vars

C5_Witness ==
  /\ Len(errorAnswers) = 1
  /\ errorAnswers[1].count = "0"
  /\ crashCount = 1

\* C6 as stated: deactivate() never rejects, and whatever client.stop() threw,
\* deactivate() appended at least one line to the output channel.
C6_DeactivateLogsEveryFailure ==
  /\ deactivateResult # "rejected"
  /\ stopThrown # Undefined => Len(deactivateLines) >= 1

\* A step in which the extension handles an error event: a transport error,
\* an initialization failure, an unexpected close, or a failure of stop()
\* inside deactivate().
ErrorHandled ==
  \/ errorAnswers' # errorAnswers
  \/ initFailedReturns' # initFailedReturns
  \/ closedAnswers' # closedAnswers
  \/ stopThrown = Undefined /\ stopThrown' # Undefined

\* C17 as stated: every step that handles an error event appends at least one
\* line to the output channel or hands at least one event to the telemetry
\* reporter.
C17_EveryErrorLeavesATrace ==
  [][ ErrorHandled =>
        \/ Len(outputChannel') > Len(outputChannel)
        \/ Len(telemetry') > Len(telemetry) ]_vars

\* C18: a close answered DoNotRestart is followed by DoNotRestart answers
\* only; no step lowers the crash counter or changes a recorded
\* initialization error; and when the closed handler answers DoNotRestart it
\* answers DoNotRestart again for the counter it leaves or any higher one,
\* whether or not an initialization error has been recorded since.
C18_StoppingIsPermanent ==
  [][ /\ crashCount' >= crashCount
      /\ initializationError # Undefined => initializationError' = initializationError
      /\ \A i \in 1 .. Len(closedAnswers'), j \in 1 .. Len(closedAnswers') :
           (i < j /\ closedAnswers'[i].action = "DoNotRestart") =>
             closedAnswers'[j].action = "DoNotRestart"
      /\ \A ie \in InitErrors \cup { Undefined }, cc \in CrashCounts :
           LET r == errorHandler_closed(ie, cc)
           IN  /\ r.crashCount >= cc
               /\ r.action = "DoNotRestart" =>
                    \A ie2 \in (IF ie = Undefined THEN InitErrors \cup { Undefined }
                                 ELSE { ie }),
                       cc2 \in CrashCounts :
                      cc2 >= r.crashCount =>
                        errorHandler_closed(ie2, cc2).action = "DoNotRestart" ]_vars

C18_Witness ==
  /\ Len(closedAnswers) = 2
  /\ closedAnswers[2].action = "DoNotRestart"
  /\ closedAnswers[2].initializationError = Undefined
  /\ crashCount = 2
  /\ clientState = "Stopped"
  /\ phase = "deactivated"

ClientStates == { "Stopped", "Starting", "Running" }
ClientLine(change) == "Client: " \o change[1] \o " --> " \o change[2]
IsClientLine(line) == line \in { ClientLine(c) : c \in ClientStates \X ClientStates }

\* C19: the 'Client: <old> --> <new>' lines of the output channel are those of
\* the client's state changes, one for each change and in their order; the
\* listener appends that one line for every change, and for a change from
\* Running to Stopped it also sends one stopClient event, so there are at
\* least as many stopClient events as such changes.
C19_StateChangesLogged ==
  /\ SelectSeq(outputChannel, IsClientLine)
       = [ i \in 1 .. Len(stateChanges) |-> ClientLine(stateChanges[i]) ]
  /\ \A c \in ClientStates \X ClientStates :
       c[1] # c[2] => onDidChangeState(c[1], c[2]).lines = << ClientLine(c) >>
  /\ onDidChangeState("Running", "Stopped").telemetry = << Event("stopClient") >>
  /\ Cardinality({ i \in 1 .. Len(telemetry) : telemetry[i] = Event("stopClient") })
       >= Cardinality({ i \in 1 .. Len(stateChanges) :
                          stateChanges[i] = << "Running", "Stopped" >> })

C19_Witness ==
  /\ Len(stateChanges) = 3
  /\ stateChanges[2] = << "Starting", "Running" >>
  /\ stateChanges[3] = << "Running", "Stopped" >>
  /\ telemetry[Len(telemetry)] = Event("stopClient")

\* C26: a close that arrives with an initialization error recorded leaves the
\* crash counter as it was, logs only 'Initialization error handled by
\* handler', and is answered DoNotRestart with an empty message, never the
\* generic failure message, for every value of the crash counter; so also
\* when the error was recorded during the restart that followed a first crash.
C26_InitializationErrorBeforeCounter ==
  /\ \A i \in ClosedIndexes :
       closedAnswers[i].initializationError # Undefined =>
         /\ closedAnswers[i].crashCountAfter = closedAnswers[i].crashCountBefore
         /\ closedAnswers[i].lines = << "Initialization error handled by handler" >>
         /\ closedAnswers[i].action = "DoNotRestart"
         /\ closedAnswers[i].hasMessage
         /\ closedAnswers[i].message = ""
         /\ closedAnswers[i].message # GenericFailure
  /\ \A e \in InitErrors, cc \in CrashCounts :
       LET r == errorHandler_closed(e, cc)
       IN  /\ r.crashCount = cc
           /\ r.lines = << "Initialization error handled by handler" >>
           /\ r.action = "DoNotRestart"
           /\ r.hasMessage
           /\ r.message = ""
  /\ (closedAnswers # << >>
        /\ closedAnswers[Len(closedAnswers)].initializationError # Undefined) =>
       crashCount = closedAnswers[Len(closedAnswers)].crashCountBefore

\* A first crash answered Restart, an initialization failure during the
\* restart, then the close that follows it.
C26_Witness ==
  /\ Len(closedAnswers) = 2
  /\ closedAnswers[1].action = "Restart"
  /\ closedAnswers[1].crashCountAfter = 1
  /\ closedAnswers[2].initializationError # Undefined
  /\ closedAnswers[2].crashCountBefore = 1
  /\ closedAnswers[2].crashCountAfter = 1
  /\ closedAnswers[2].message = ""
  /\ crashCount = 1

-----------------------------------------------------------------------------
(* Properties of the cloud providers (terraformCloudProvider.ts) *)

CallIndexes == 1 .. Len(calls)
FiredProviders == [ i \in 1 .. Len(fired) |-> fired[i].provider ]
Filters == { "" } \cup ProjectIDs

\* C7: a getChildren() call of the Workspace provider made while the
\* organization is the empty string returns the empty sequence at once and
\* issues no listWorkspaces call, whatever the project filter is.
C7_NoOrganizationNoFetch ==
  /\ \A i \in CallIndexes :
       (calls[i].provider = "workspaces" /\ calls[i].organization = "") =>
         /\ calls[i].status = "empty"
         /\ calls[i].items = << >>
         /\ calls[i].request.api = "none"
  /\ \A f \in Filters :
       LET c == WorkspaceTreeDataProvider_getChildren("", f)
       IN  c.status = "empty" /\ c.items = << >> /\ c.request.api = "none"

C7_Witness ==
  /\ globalOrganization = ""
  /\ FiredProviders = << "workspaces", "runs" >>
  /\ \E i \in CallIndexes :
       /\ calls[i].provider = "workspaces"
       /\ calls[i].organization = ""
       /\ calls[i].status = "empty"

\* C8: a getChildren() call of the Workspace provider made with organization O
\* (not empty) and project filter P issues listWorkspaces with
\* organization_name = O, and with filter[project][id] = P when P is not empty
\* and no project filter when it is; refresh(P) makes P the filter.
C8_ListWorkspacesRequest ==
  /\ \A i \in CallIndexes :
       (calls[i].provider = "workspaces" /\ calls[i].organization # "") =>
         /\ calls[i].request.api = "listWorkspaces"
         /\ calls[i].request.organization_name = calls[i].organization
         /\ calls[i].request.hasProjectFilter = (calls[i].filter # "")
         /\ calls[i].request.projectFilter = calls[i].filter
  /\ \A p \in ProjectIDs : WorkspaceTreeDataProvider_refresh(p) = p
  /\ projectID \in Filters

C8_Witness ==
  /\ projectID = "prj-123"
  /\ Len(calls) = 2
  /\ calls[1].request.api = "listWorkspaces"
  /\ ~calls[1].request.hasProjectFilter
  /\ calls[2].request.api = "listWorkspaces"
  /\ calls[2].request.organization_name = "acme"
  /\ calls[2].request.projectFilter = "prj-123"

\* C9: a getChildren() call of the Run provider made while workspace W is the
\* selection issues listRuns with workspace_id = W.id; when the response
\* arrives there is one item per record, in the order of the response, and
\* the item of record R has R's id and the URL
\* https://<host>/app/<org>/workspaces/<W.name>/runs/<R.id>, <org> being the
\* organization when the call was made.
C9_ListRunsRequestAndItems ==
  \A i \in CallIndexes :
    (calls[i].provider = "runs" /\ calls[i].workspace # NoWorkspace) =>
      /\ calls[i].request.api = "listRuns"
      /\ calls[i].request.workspace_id = calls[i].workspace.id
      /\ calls[i].status = "fulfilled" =>
           /\ Len(calls[i].items) = Len(calls[i].data)
           /\ \A k \in 1 .. Len(calls[i].data) :
                /\ calls[i].items[k].id = calls[i].data[k].id
                /\ calls[i].items[k].url =
                     "https://" \o RunHost \o "/app/" \o calls[i].organization
                       \o "/workspaces/" \o calls[i].workspace.name
                       \o "/runs/" \o calls[i].data[k].id

C9_Witness ==
  \E i \in CallIndexes :
    /\ calls[i].provider = "runs"
    /\ calls[i].status = "fulfilled"
    /\ calls[i].workspace = workspace
    /\ calls[i].organization = "acme"
    /\ Len(calls[i].items) = 2
    /\ calls[i].items[1].url =
         "https://app.staging.terraform.io/app/acme/workspaces/web/runs/run-2"

\* C10 as stated: no getChildren() call of either provider ends rejected (a
\* call whose remote list call failed resolves to the empty sequence instead).
C10_FetchFailureYieldsEmpty ==
  \A i \in CallIndexes : calls[i].status # "rejected"

\* C11: while the Run provider has no workspace, getChildren() returns the
\* empty sequence and issues no listRuns call, whatever the organization is;
\* refresh() without a workspace leaves the provider without one.
C11_NoWorkspaceNoFetch ==
  /\ \A i \in CallIndexes :
       (calls[i].provider = "runs" /\ calls[i].workspace = NoWorkspace) =>
         /\ calls[i].status = "empty"
         /\ calls[i].items = << >>
         /\ calls[i].request.api = "none"
  /\ \A org \in { "" } \cup Organizations :
       LET c == RunTreeDataProvider_getChildren(org, NoWorkspace)
       IN  c.status = "empty" /\ c.items = << >> /\ c.request.api = "none"
  /\ RunTreeDataProvider_refresh(NoWorkspace, NoWorkspace) = NoWorkspace
  /\ workspace = NoWorkspace =>
       RunTreeDataProvider_getChildren(globalOrganization, workspace).status = "empty"

C11_Witness ==
  /\ workspace = NoWorkspace
  /\ globalOrganization = "acme"
  /\ FiredProviders = << "runs" >>
  /\ Len(calls) = 2
  /\ \A i \in CallIndexes : calls[i].provider = "runs" /\ calls[i].status = "empty"

\* C24: a getChildren() call issues its remote call with the organization, the
\* project filter or the workspace id held when it is made; no later step
\* (a refresh, a selection, a picker choice) changes the request or the
\* recorded values of a call or ends a pending call, only its own response
\* settles it, and a settled call stays as it is; the run URLs of a fulfilled
\* call carry the organization and the workspace name of the time of the call.
C24_InFlightFetchKeepsItsParameters ==
  /\ [](\A i \in CallIndexes :
          (calls[i].provider = "runs" /\ calls[i].status = "fulfilled") =>
            \A k \in 1 .. Len(calls[i].items) :
              calls[i].items[k].url =
                "https://" \o RunHost \o "/app/" \o calls[i].organization
                  \o "/workspaces/" \o calls[i].workspace.name
                  \o "/runs/" \o calls[i].data[k].id)
  /\ [][ \/ calls' = calls
         \/ /\ Len(calls') >= Len(calls)
            /\ \A i \in 1 .. Len(calls) :
                 /\ calls'[i].request = calls[i].request
                 /\ calls'[i].organization = calls[i].organization
                 /\ calls'[i].filter = calls[i].filter
                 /\ calls'[i].workspace = calls[i].workspace
                 /\ calls[i].status # "pending" => calls'[i] = calls[i]
            /\ Len(calls') > Len(calls) =>
                 LET c == calls'[Len(calls')]
                 IN  /\ c.status \in { "empty", "pending" }
                     /\ (c.provider = "workspaces" /\ c.status = "pending") =>
                          /\ c.request.organization_name = globalOrganization
                          /\ c.request.hasProjectFilter = (projectID # "")
                          /\ c.request.projectFilter = projectID
                          /\ c.organization = globalOrganization
                          /\ c.filter = projectID
                     /\ (c.provider = "runs" /\ c.status = "pending") =>
                          /\ c.request.workspace_id = workspace.id
                          /\ c.organization = globalOrganization
                          /\ c.workspace = workspace ]_vars

\* Two fetches of the Run provider in flight at once; the newer one, made for
\* the newer selection, is answered while the older one is still pending.
C24_Witness ==
  /\ Len(calls) = 2
  /\ calls[1].provider = "runs"
  /\ calls[1].status = "pending"
  /\ calls[1].workspace = [name |-> "web", id |-> "ws-1"]
  /\ calls[2].provider = "runs"
  /\ calls[2].status = "fulfilled"
  /\ calls[2].workspace = [name |-> "db", id |-> "ws-2"]
  /\ workspace = [name |-> "db", id |-> "ws-2"]

-----------------------------------------------------------------------------
(* Properties of the commands and view events (terraformCloudProvider.ts) *)

Selections == WorkspaceItems \cup { NoWorkspace }

\* C12 as stated: after every selection-change event of the workspace view the
\* Run provider's workspace is the selection of that event (none when the
\* selection is empty, never an earlier selection), the event has fired one
\* Run notification, and the next getChildren() of the Run provider is the
\* fetch for that selection.
C12_SelectionDrivesRunList ==
  lastEvent.name = "onDidChangeSelection" =>
    /\ workspace = lastEvent.item
    /\ FiredProviders = << "runs" >>
    /\ RunTreeDataProvider_getChildren(globalOrganization, workspace)
         = RunTreeDataProvider_getChildren(globalOrganization, lastEvent.item)

\* C12 amended: after a selection-change event that selects an item, the Run
\* provider's workspace is that item, the next getChildren() of the Run
\* provider requests the runs of that item, and a listener of the one Run
\* notification finds that item; after a selection-change event with an empty
\* selection the workspace is the one held before the event; either event
\* fires one Run notification, and the provider holds one workspace or none.
C12_SelectedItemDrivesRunList ==
  /\ workspace \in Selections
  /\ lastEvent.name = "onDidChangeSelection" =>
       /\ FiredProviders = << "runs" >>
       /\ fired[1].workspace = workspace
       /\ IF lastEvent.item # NoWorkspace
          THEN /\ workspace = lastEvent.item
               /\ LET c == RunTreeDataProvider_getChildren(globalOrganization, workspace)
                  IN  /\ c.request.api = "listRuns"
                      /\ c.request.workspace_id = lastEvent.item.id
          ELSE workspace = lastEvent.before.workspace

C12_Witness ==
  /\ lastEvent.name = "onDidChangeSelection"
  /\ lastEvent.item = [name |-> "db", id |-> "ws-2"]
  /\ lastEvent.before.workspace = [name |-> "web", id |-> "ws-1"]
  /\ workspace = [name |-> "db", id |-> "ws-2"]

\* The refresh() calls a command or view event makes, in call order, read off
\* its handler.
RefreshCalls(event) ==
  IF event.name \in { "workspaces.listAll", "workspaces.refresh" }
  THEN << "workspaces", "runs" >>
  ELSE IF event.name = "workspaces.filterByProject"
  THEN IF event.before.globalOrganization # "" /\ event.listed /\ event.answer # NotGiven
       THEN << "workspaces", "runs" >>
       ELSE << >>
  ELSE IF event.name \in { "runs.refresh", "onDidChangeSelection" }
  THEN << "runs" >>
  ELSE << >>

\* C13: the notifications a command or view event has fired are those of its
\* refresh() calls, one for each call and in call order, also when the call
\* changes nothing; a listener of a notification finds the filter or the
\* workspace as the call has set it.
C13_OneNotificationPerRefresh ==
  /\ FiredProviders = RefreshCalls(lastEvent)
  /\ \A i \in 1 .. Len(fired) :
       IF fired[i].provider = "workspaces"
       THEN fired[i].projectID = projectID
       ELSE fired[i].workspace = workspace
  /\ \A a \in Filters, b \in Filters :
       Len(WorkspaceTreeDataProvider_fire(a, b)) = 1
  /\ \A a \in Selections, b \in Selections :
       Len(RunTreeDataProvider_fire(a, b)) = 1

C13_Witness ==
  /\ lastEvent.name = "workspaces.refresh"
  /\ lastEvent.item = NoWorkspace
  /\ lastEvent.before.projectID = "prj-123"
  /\ projectID = "prj-123"
  /\ workspace = lastEvent.before.workspace
  /\ Len(fired) = 2

\* C14 as stated: after the picker has changed the organization, the
\* Workspace provider's project filter is empty and the Run provider has no
\* workspace, so the next getChildren() of the Workspace provider sends no
\* project filter and the next one of the Run provider fetches nothing.
C14_OrganizationSwitchResets ==
  (lastEvent.name = "organization.picker"
     /\ globalOrganization # lastEvent.before.globalOrganization) =>
    /\ projectID = ""
    /\ workspace = NoWorkspace
    /\ ~WorkspaceTreeDataProvider_getChildren(globalOrganization, projectID)
          .request.hasProjectFilter
    /\ RunTreeDataProvider_getChildren(globalOrganization, workspace).status = "empty"

\* C16 as stated: a run of the picker command whose listOrganizations call
\* fails ends without throwing and leaves the stored organization and the
\* status bar text as they were.
C16_PickerWithoutSessionCompletes ==
  (lastEvent.name = "organization.picker" /\ ~lastEvent.listed) =>
    /\ lastEvent.result = "resolved"
    /\ globalOrganization = lastEvent.before.globalOrganization
    /\ statusBarText = lastEvent.before.statusBarText

\* C20 as stated: the status bar item is shown exactly when the workspace
\* tree view is visible.
C20_StatusBarFollowsView ==
  statusBarShown = viewVisible

\* C21: after the filterByProject command in which, with an organization
\* chosen, the user has picked project P, the Workspace provider's filter is
\* P's id, the command has fired one notification of the Workspace provider
\* and then one of the Run provider, and the Run provider's workspace is as
\* before; after the command with no organization, a failed project list or a
\* dismissed dialog, the filter and the workspace are as before and nothing
\* has fired.  After the listAll command the filter is empty and one
\* notification of each provider has fired.
C21_FilterCommands ==
  /\ lastEvent.name = "workspaces.filterByProject" =>
       IF lastEvent.before.globalOrganization # "" /\ lastEvent.listed
            /\ lastEvent.answer # NotGiven
       THEN /\ projectID = lastEvent.answer
            /\ FiredProviders = << "workspaces", "runs" >>
            /\ workspace = lastEvent.before.workspace
       ELSE /\ projectID = lastEvent.before.projectID
            /\ workspace = lastEvent.before.workspace
            /\ fired = << >>
  /\ lastEvent.name = "workspaces.listAll" =>
       /\ projectID = ""
       /\ FiredProviders = << "workspaces", "runs" >>

C21_Witness ==
  /\ lastEvent.name = "workspaces.filterByProject"
  /\ lastEvent.answer = "prj-123"
  /\ lastEvent.before.projectID = ""
  /\ lastEvent.before.workspace = [name |-> "web", id |-> "ws-1"]
  /\ projectID = "prj-123"

\* C22: WorkspaceTreeDataProvider.refresh makes the filter the projectID it
\* is given, and the empty string when it is given none; after the
\* workspaces.refresh command the filter is what it was before the command,
\* and the Run provider's refresh has been called with the command's item:
\* the workspace is that item, or the one held before when there is no item,
\* and one notification of each provider has fired.
C22_WorkspacesRefreshKeepsFilter ==
  /\ \A p \in Filters : WorkspaceTreeDataProvider_refresh(p) = p
  /\ WorkspaceTreeDataProvider_refresh(NotGiven) = ""
  /\ lastEvent.name = "workspaces.refresh" =>
       /\ projectID = lastEvent.before.projectID
       /\ workspace = IF lastEvent.item # NoWorkspace
                      THEN lastEvent.item ELSE lastEvent.before.workspace
       /\ FiredProviders = << "workspaces", "runs" >>

C22_Witness ==
  /\ lastEvent.name = "workspaces.refresh"
  /\ lastEvent.item = [name |-> "db", id |-> "ws-2"]
  /\ lastEvent.before.projectID = "prj-123"
  /\ lastEvent.before.workspace = [name |-> "web", id |-> "ws-1"]
  /\ projectID = "prj-123"
  /\ workspace = [name |-> "db", id |-> "ws-2"]

\* C23: RunTreeDataProvider.refresh returns the workspace it is given and,
\* given none, the one it holds; after the runs.refresh command the workspace
\* is the one held before and one Run notification has fired; no step takes
\* the Run provider from a workspace to none.
C23_RunRefreshKeepsSelection ==
  [][ /\ \A current \in Selections :
           /\ RunTreeDataProvider_refresh(current, NoWorkspace) = current
           /\ \A given \in WorkspaceItems :
                RunTreeDataProvider_refresh(current, given) = given
      /\ lastEvent'.name = "runs.refresh" =>
           /\ workspace' = lastEvent'.before.workspace
           /\ FiredProviders' = << "runs" >>
      /\ workspace # NoWorkspace => workspace' # NoWorkspace ]_vars

C23_Witness ==
  /\ lastEvent.name = "runs.refresh"
  /\ lastEvent.before.workspace = [name |-> "web", id |-> "ws-1"]
  /\ workspace = [name |-> "web", id |-> "ws-1"]
  /\ Len(fired) = 1

\* C25 as stated: whenever the status bar item is shown with an organization,
\* its text is the organization the providers read for their next fetch; at
\* startup the text is the persisted last-chosen organization; after a picker
\* run that chose an organization the text is that organization; a dismissed
\* picker leaves the text and the stored organization as they were.
C25_StatusBarShowsFetchOrganization ==
  /\ (statusBarShown /\ statusBarText # "") => statusBarText = globalOrganization
  /\ lastEvent.name = "none" => statusBarText = globalOrganization
  /\ lastEvent.name = "organization.picker" =>
       IF lastEvent.listed /\ lastEvent.answer # NotGiven
       THEN /\ statusBarShown
            /\ statusBarText = lastEvent.answer
            /\ globalOrganization = lastEvent.answer
       ELSE /\ statusBarText = lastEvent.before.statusBarText
            /\ globalOrganization = lastEvent.before.globalOrganization

-----------------------------------------------------------------------------
(* Properties of the fetches across sign-out *)

\* C15 as stated: a getChildren() call of the Workspace provider made while
\* no session exists ends with the empty sequence, whatever the organization
\* is: it never ends rejected and never delivers an item.
C15_SignedOutFetchIsEmpty ==
  \A i \in CallIndexes :
    (calls[i].provider = "workspaces" /\ ~calls[i].session) =>
      /\ calls[i].status # "rejected"
      /\ calls[i].items = << >>

====
